---- MODULE Spec2Model ----
(***************************************************************************)
(* Model of src/main.py: a Flask service that validates uploaded or inline *)
(* (base64) images, runs them through a shared YOLOv5 engine (MODEL) and   *)
(* either overwrites the stored upload with an annotated picture or        *)
(* returns the detections as a list of records.                            *)
(*                                                                         *)
(* Strings are tuples of one-character strings, so that splitext, lower()  *)
(* and secure_filename are computed character by character.  Byte strings  *)
(* that can be 16 MiB long are described by what the code looks at: their  *)
(* length and the magic signature they start with.                         *)
(***************************************************************************)
EXTENDS Integers, Sequences, FiniteSets, TLC

----------------------------------------------------------------------------
(* Bounds of the model *)

\* number of request threads of the (threaded) Flask server that are modelled
NumReqs == 2
\* largest number of rows in a detection table returned by the engine
MaxRows == 2

Reqs == 1..NumReqs

----------------------------------------------------------------------------
(* Program constants *)

\* main.py:24
MAX_PAYLOAD == 4096 * 4096
\* main.py:116, the lower limit of the size guard
MIN_PAYLOAD == 512
\* main.py:46 and main.py:53, the number of header bytes that are sniffed
HEADER_BYTES == 512
\* main.py:30
IMAGE_EXTENSIONS == { <<".", "j", "p", "g">>, <<".", "p", "n", "g">>, <<".", "g", "i", "f">> }

\* sys.getsizeof('') of CPython: the fixed part of a compact ASCII str object,
\* 49 bytes up to CPython 3.11 and 41 bytes in CPython 3.12 (imghdr, which the
\* program imports, exists up to 3.12).  The interpreter is a choice of the
\* deployment.
PY_STR_OVERHEADS == {41, 49}

\* main.py:29
MAX_CONTENT_LENGTH == MAX_PAYLOAD

----------------------------------------------------------------------------
(* Strings *)

Min2(a, b) == IF a <= b THEN a ELSE b

\* str.rfind, 1-based: the last index of character c in p, 0 when absent
RFind(p, c) ==
    LET hits == { i \in 1..Len(p) : p[i] = c }
    IN  IF hits = {} THEN 0 ELSE CHOOSE i \in hits : \A j \in hits : j <= i

\* os.path.splitext(p)[1] (genericpath._splitext with sep "/" and extsep "."):
\* the extension starts at the last dot of the last path component, unless
\* that component has only dots before it
splitext_ext(p) ==
    LET sepIndex == RFind(p, "/")
        dotIndex == RFind(p, ".")
    IN  IF dotIndex > sepIndex
           /\ \E k \in (sepIndex + 1)..(dotIndex - 1) : p[k] # "."
        THEN SubSeq(p, dotIndex, Len(p))
        ELSE << >>

\* str.lower() on the characters used here
LowerChar(c) ==
    CASE c = "O" -> "o"
      [] c = "N" -> "n"
      [] c = "J" -> "j"
      [] c = "P" -> "p"
      [] c = "G" -> "g"
      [] c = "A" -> "a"
      [] OTHER -> c

lower(s) == [ i \in 1..Len(s) |-> LowerChar(s[i]) ]

\* characters kept by werkzeug's _filename_ascii_strip_re ([^A-Za-z0-9_.-] is removed)
SafeChar(c) == c \notin {"/", " ", "!"}

RECURSIVE StripLeft(_, _)
StripLeft(s, chars) ==
    IF s # << >> /\ Head(s) \in chars THEN StripLeft(Tail(s), chars) ELSE s

RECURSIVE StripRight(_, _)
StripRight(s, chars) ==
    IF s # << >> /\ s[Len(s)] \in chars
    THEN StripRight(SubSeq(s, 1, Len(s) - 1), chars)
    ELSE s

Strip(s, chars) == StripRight(StripLeft(s, chars), chars)

\* "_".join(s.split()): leading and trailing blanks go, inner runs of blanks
\* become one underscore
RECURSIVE JoinWords(_)
JoinWords(s) ==
    IF s = << >> THEN << >>
    ELSE IF Head(s) = " "
         THEN <<"_">> \o JoinWords(StripLeft(s, {" "}))
         ELSE <<Head(s)>> \o JoinWords(Tail(s))

\* werkzeug.utils.secure_filename on a POSIX host: path separators become
\* blanks, words are joined by "_", unsafe characters are removed and leading
\* and trailing dots and underscores are stripped
secure_filename(filename) ==
    LET blanks == [ i \in 1..Len(filename) |->
                      IF filename[i] = "/" THEN " " ELSE filename[i] ]
        joined == JoinWords(Strip(blanks, {" "}))
        kept   == SelectSeq(joined, SafeChar)
    IN  Strip(kept, {".", "_"})

----------------------------------------------------------------------------
(* Byte strings, format sniffing, base64 *)

\* Python's None where the code compares it with an extension string; an
\* extension always starts with a dot, so this tuple equals none of them
None == <<"None">>

\* the magic signatures imghdr knows that occur in the model; "none" is
\* content that starts with no known signature
Signatures == {"jpeg", "png", "gif", "bmp", "none"}

\* number of leading bytes imghdr's test of a format looks at: test_jpeg reads
\* h[6:10], test_png 8 bytes, test_gif h[:6], test_bmp 2 bytes
SigLen(sig) ==
    CASE sig = "jpeg" -> 10
      [] sig = "png"  -> 8
      [] sig = "gif"  -> 6
      [] sig = "bmp"  -> 2
      [] OTHER        -> 0

FormatChars(format) ==
    CASE format = "jpeg" -> <<"j", "p", "e", "g">>
      [] format = "jpg"  -> <<"j", "p", "g">>
      [] format = "png"  -> <<"p", "n", "g">>
      [] format = "gif"  -> <<"g", "i", "f">>
      [] format = "bmp"  -> <<"b", "m", "p">>

\* A run of bytes of some content: the signature the whole content starts
\* with, the offset of the run in the content and the length of the run.
\* imghdr.what(None, h): the format whose signature h starts with
imghdr_what(h) ==
    IF h.sig # "none" /\ h.off = 0 /\ h.len >= SigLen(h.sig) THEN h.sig ELSE "none"

\* header[:512]
Slice512(header) == [header EXCEPT !.len = Min2(header.len, HEADER_BYTES)]

\* validate_image_header without the jpeg -> jpg canonicalisation
validate_image_header_raw(header) ==
    LET format == imghdr_what(Slice512(header))
    IN  IF format = "none" THEN None ELSE <<".">> \o FormatChars(format)

\* main.py:45-49
validate_image_header(header) ==
    LET format == imghdr_what(Slice512(header))
    IN  IF format = "none"
        THEN None
        ELSE <<".">> \o FormatChars(IF format # "jpeg" THEN format ELSE "jpg")

\* stream.read(n) of a stream [data, pos]: the bytes read and the new position
stream_read(stream, n) ==
    LET got == Min2(n, stream.data.len - stream.pos)
    IN  [ bytes  |-> [sig |-> stream.data.sig, off |-> stream.pos, len |-> got],
          stream |-> [stream EXCEPT !.pos = stream.pos + got] ]

stream_seek(stream, to) == [stream EXCEPT !.pos = to]

\* validate_image without stream.seek(0)
validate_image_noseek(stream) ==
    LET rd == stream_read(stream, HEADER_BYTES)
    IN  [ ret |-> validate_image_header(rd.bytes), stream |-> rd.stream ]

\* main.py:52-55: the sniffed extension and the stream as it is left
validate_image(stream) ==
    LET rd     == stream_read(stream, HEADER_BYTES)
        header == rd.bytes
        after  == stream_seek(rd.stream, 0)
    IN  [ ret |-> validate_image_header(header), stream |-> after ]

\* sys.getsizeof(content['body']): the size of the Python object, which for
\* an ASCII str is the interpreter's fixed overhead plus one byte a character
getsizeof(body, overhead) ==
    IF body.str THEN overhead + body.len ELSE body.objsize

\* A str body is described by its length, the number of characters outside
\* the base64 alphabet (junk, which b64decode discards when validate is
\* False) and the number of trailing "=".
DataChars(body) == body.len - body.junk - body.pad

\* a decoder that never reports malformed base64
b64decode_never_fails(body) == body.str

\* base64.standard_b64decode raises (binascii.Error for a str, TypeError for
\* another JSON value) unless the data characters and the padding fill
\* whole quads
b64decode_ok(body) ==
    /\ body.str
    /\ LET q == DataChars(body) % 4
       IN  \/ q = 0
           \/ q = 2 /\ body.pad >= 2
           \/ q = 3 /\ body.pad >= 1

standard_b64decode(body) ==
    LET q == DataChars(body) % 4
    IN  [ sig |-> body.sig,
          off |-> 0,
          len |-> 3 * (DataChars(body) \div 4) + (IF q = 0 THEN 0 ELSE q - 1) ]

----------------------------------------------------------------------------
(* Detection tables and their normalisation *)

\* columns of results.pandas().xyxy[0] and results.pandas().xywhn[0]
XYXY_COLUMNS  == {"xmin", "ymin", "xmax", "ymax", "confidence", "class", "name"}
XYWHN_COLUMNS == {"xcenter", "ycenter", "width", "height", "confidence", "class", "name"}

\* objects the engine can detect in the model; a cell of the table is
\* identified by its column and the object of its row
Objects == {"cat", "dog", "bus"}

Prefix(n) == 0..(n - 1)

\* DataFrame.to_dict('dict') of the detections dets (a sequence of objects):
\* column -> (row index -> value), row indices from 0
to_dict(columns, dets) ==
    [ c \in columns |-> [ i \in Prefix(Len(dets)) |-> <<c, dets[i + 1]>> ] ]

\* the inner loop reading row 0 whatever the index is
row_record_first(data, index) == [ key \in DOMAIN data |-> data[key][0] ]

\* main.py:73-75: one pass of the outer loop
row_record(data, index) == [ key \in DOMAIN data |-> data[key][index] ]

\* main.py:72-75
RECURSIVE rows_loop(_, _, _, _)
rows_loop(data, result, index, number_of_objects) ==
    IF index >= number_of_objects
    THEN result
    ELSE rows_loop(data, Append(result, row_record(data, index)),
                   index + 1, number_of_objects)

\* main.py:70-76
normalise_table(data) ==
    LET number_of_objects == Cardinality(DOMAIN data["class"])
    IN  rows_loop(data, << >>, 0, number_of_objects)

RECURSIVE SeqsUpTo(_, _)
SeqsUpTo(S, n) ==
    IF n = 0 THEN { << >> }
    ELSE LET shorter == SeqsUpTo(S, n - 1)
         IN  shorter \cup { Append(s, x) : s \in { t \in shorter : Len(t) = n - 1 }, x \in S }

Detections == SeqsUpTo(Objects, MaxRows)

----------------------------------------------------------------------------
(* State *)

VARIABLES
    strOverhead,  \* getsizeof('') of the interpreter that runs the service
    limitsJson,   \* the installed werkzeug applies MAX_CONTENT_LENGTH to JSON bodies
    pc,           \* pc[r]: where request thread r is
    req,          \* req[r]: the request r received
    stream,       \* stream[r]: uploaded_file.stream of r, [data, pos]
    trace,        \* trace[r]: the operations r has performed on its payload
    image,        \* image[r]: the argument r passes to process_image
    results,      \* results[r]: what MODEL([image]) gave r
    resp,         \* resp[r]: the HTTP response of r, [status, body]
    engineCalls,  \* engineCalls[r]: number of times r called MODEL
    files,        \* the upload directory: stored name -> content
    saved,        \* the requests that executed uploaded_file.save, in order
    wrote         \* wrote[r]: r has written to the upload directory

vars == << strOverhead, limitsJson, pc, req, stream, trace, image, results, resp,
           engineCalls, files, saved, wrote >>

NoReq    == [kind |-> "none"]
NoStream == [data |-> [sig |-> "none", len |-> 0, id |-> 0], pos |-> 0]
NoResult == [kind |-> "none"]
NoResp   == [status |-> 0, body |-> << >>]
NoFile   == [id |-> 0, sig |-> "none", off |-> 0, len |-> 0, ann |-> 0]

----------------------------------------------------------------------------
(* The inline-payload handler, main.py:110-144 *)

Chars_on == <<"o", "n">>

\* the argument of process_image and its keyword arguments
ImageArg(kind, bytes, name, save_file, norm) ==
    [ kind |-> kind, bytes |-> bytes, name |-> name,
      save_file |-> save_file, output_normalisation |-> norm ]

NoImage == ImageArg("none", NoFile, << >>, FALSE, FALSE)

\* abort(status) or an uncaught exception (status 500, or 400 for Flask's
\* BadRequest): the handler ends here
Ended(status, ops) ==
    [ next |-> "done", status |-> status, trace |-> ops, image |-> NoImage ]

\* the handler reaches process_image(image, output_normalisation): image is
\* the PIL image opened from the decoded bytes
Calls(image_body, norm, ops) ==
    [ next |-> "call_model", status |-> 0, trace |-> ops,
      image |-> ImageArg("pil",
                         [id |-> 0, sig |-> image_body.sig, off |-> 0,
                          len |-> image_body.len, ann |-> 0],
                         << >>, FALSE, norm) ]

\* main.py:129-142, after the body was decoded to image_body
inspect_decoded(inp, image_body, ops) ==
    IF ~inp.name.str
    THEN Ended(500, ops)  \* os.path.splitext raises TypeError
    ELSE
    LET image_ext == splitext_ext(inp.name.chars)
    IN  IF image_ext \notin IMAGE_EXTENSIONS
        THEN Ended(415, Append(ops, "splitext"))
        ELSE IF image_ext # validate_image_header(image_body)
        THEN Ended(415, ops \o <<"splitext", "sniff">>)
        ELSE IF ~inp.opens
        THEN Ended(500, ops \o <<"splitext", "sniff", "Image.open">>)
        ELSE
        LET ops2 == ops \o <<"splitext", "sniff", "Image.open">>
        IN  IF ~inp.normalisation.present
            THEN Calls(image_body, FALSE, ops2)
            ELSE IF ~inp.normalisation.str
            THEN Ended(500, ops2)  \* .lower() raises AttributeError
            ELSE IF lower(inp.normalisation.chars) = Chars_on
            THEN Calls(image_body, TRUE, ops2)
            ELSE Calls(image_body, FALSE, ops2)

\* Content-Length of the request whose JSON document is written without
\* blanks: {"body":"...","name":"..."} and, when given,
\* ,"normalisation":"..."
request_content_length(inp) ==
    21 + inp.body.len + Len(inp.name.chars)
       + (IF inp.normalisation.present THEN 19 + Len(inp.normalisation.chars) ELSE 0)

\* main.py:29 and 113: reading request.json raises RequestEntityTooLarge
\* (413) for a request longer than MAX_CONTENT_LENGTH, in the versions of
\* werkzeug that apply the limit to every read of the body (before 2.3 it is
\* applied to form data only)
too_large(inp, limited) ==
    limited /\ request_content_length(inp) > MAX_CONTENT_LENGTH

\* main.py:112-144 up to the call of process_image
inspect_image_outcome(inp, overhead, limited) ==
    IF ~inp.is_json
    THEN Ended(415, << >>)
    ELSE IF too_large(inp, limited)
    THEN Ended(413, << >>)
    ELSE IF inp.payload = "malformed"
    THEN Ended(400, << >>)  \* request.json raises BadRequest
    ELSE IF inp.payload # "object"
    THEN Ended(500, << >>)  \* dict(request.json) raises TypeError
    ELSE IF ~(inp.hasBody /\ inp.hasName)
    THEN Ended(415, << >>)
    ELSE
    LET image_body_length == getsizeof(inp.body, overhead)
    IN  IF image_body_length < MIN_PAYLOAD \/ image_body_length > MAX_PAYLOAD
        THEN Ended(422, <<"getsizeof">>)
        ELSE IF ~b64decode_ok(inp.body)
        THEN Ended(422, <<"getsizeof", "b64decode">>)
        ELSE inspect_decoded(inp, standard_b64decode(inp.body),
                             <<"getsizeof", "b64decode">>)

\* Thread r receives the inline request inp and runs inspect_image up to the
\* response or to the engine call
inspect_image(r, inp) ==
    /\ pc[r] = "idle"
    /\ LET out == inspect_image_outcome(inp, strOverhead, limitsJson)
       IN  /\ pc' = [pc EXCEPT ![r] = out.next]
           /\ req' = [req EXCEPT ![r] = inp]
           /\ trace' = [trace EXCEPT ![r] = out.trace]
           /\ image' = [image EXCEPT ![r] = out.image]
           /\ resp' = [resp EXCEPT ![r] = [status |-> out.status, body |-> << >>]]
    /\ UNCHANGED << strOverhead, limitsJson, stream, results, engineCalls, files, saved, wrote >>

----------------------------------------------------------------------------
(* The upload handler, main.py:90-102 *)

\* main.py:92-98 and 102: the response, or "save" when the upload passed
upload_files_outcome(inp) ==
    LET stream0 == [data |-> inp.data, pos |-> 0]
    IN
    IF ~inp.hasFile
    THEN [next |-> "done", status |-> 400, stream |-> NoStream, name |-> << >>]
    ELSE
    LET filename == secure_filename(inp.filename)
    IN  IF filename = << >>
        THEN [next |-> "done", status |-> 302, stream |-> stream0, name |-> filename]
        ELSE
        LET file_ext == splitext_ext(filename)
        IN  IF file_ext \notin IMAGE_EXTENSIONS
            THEN [next |-> "done", status |-> 422, stream |-> stream0, name |-> filename]
            ELSE
            LET v == validate_image(stream0)
            IN  IF file_ext # v.ret
                THEN [next |-> "done", status |-> 422, stream |-> v.stream, name |-> filename]
                ELSE [next |-> "save", status |-> 0, stream |-> v.stream, name |-> filename]

\* Thread r receives the upload inp and runs upload_files up to the response
\* or to the point where the file is stored
upload_files(r, inp) ==
    /\ pc[r] = "idle"
    /\ LET out == upload_files_outcome(inp)
       IN  /\ pc' = [pc EXCEPT ![r] = out.next]
           /\ req' = [req EXCEPT ![r] = inp]
           /\ stream' = [stream EXCEPT ![r] = out.stream]
           /\ image' = [image EXCEPT ![r] =
                          IF out.next = "save"
                          THEN ImageArg("path", NoFile, out.name, TRUE, FALSE)
                          ELSE NoImage]
           /\ resp' = [resp EXCEPT ![r] = [status |-> out.status, body |-> << >>]]
    /\ UNCHANGED << strOverhead, limitsJson, trace, results, engineCalls, files, saved, wrote >>

\* FileStorage.save(dst): copies the stream from its current position to its
\* end into the file, which it creates or truncates
stream_save(st) ==
    [ id |-> st.data.id, sig |-> st.data.sig, off |-> st.pos,
      len |-> st.data.len - st.pos, ann |-> 0 ]

\* main.py:99-100
save_upload(r) ==
    /\ pc[r] = "save"
    /\ files' = [files EXCEPT ![image[r].name] = stream_save(stream[r])]
    /\ stream' = [stream EXCEPT ![r] = stream_seek(stream[r], stream[r].data.len)]
    /\ saved' = Append(saved, r)
    /\ wrote' = [wrote EXCEPT ![r] = TRUE]
    /\ pc' = [pc EXCEPT ![r] = "call_model"]
    /\ UNCHANGED << strOverhead, limitsJson, req, trace, image, results, resp, engineCalls >>

----------------------------------------------------------------------------
(* process_image, main.py:58-76 *)

\* the engine call behind a lock: a thread enters only when no other is inside
enter_model_locked(r) ==
    /\ pc[r] = "call_model"
    /\ \A q \in Reqs : pc[q] # "in_model"
    /\ pc' = [pc EXCEPT ![r] = "in_model"]
    /\ engineCalls' = [engineCalls EXCEPT ![r] = @ + 1]
    /\ results' = [results EXCEPT ![r] =
                     [ kind |-> "running",
                       img  |-> IF image[r].kind = "path"
                                THEN files[image[r].name]
                                ELSE image[r].bytes,
                       xyxy |-> to_dict(XYXY_COLUMNS, << >>),
                       xywhn |-> to_dict(XYWHN_COLUMNS, << >>) ]]
    /\ UNCHANGED << strOverhead, limitsJson, req, stream, trace, image, resp, files, saved, wrote >>

\* main.py:59, the call: MODEL is the one engine of the process and nothing
\* guards it.  The engine loads a path argument from the upload directory.
\* The engine is taken to return for every image it is given; a write of a
\* file (main.py:63 and 100) is taken as one step.
enter_model(r) ==
    /\ pc[r] = "call_model"
    /\ pc' = [pc EXCEPT ![r] = "in_model"]
    /\ engineCalls' = [engineCalls EXCEPT ![r] = @ + 1]
    /\ results' = [results EXCEPT ![r] =
                     [ kind |-> "running",
                       img  |-> IF image[r].kind = "path"
                                THEN files[image[r].name]
                                ELSE image[r].bytes,
                       xyxy |-> to_dict(XYXY_COLUMNS, << >>),
                       xywhn |-> to_dict(XYWHN_COLUMNS, << >>) ]]
    /\ UNCHANGED << strOverhead, limitsJson, req, stream, trace, image, resp, files, saved, wrote >>

\* main.py:59, the return: the engine detected the objects dets
leave_model(r, dets) ==
    /\ pc[r] = "in_model"
    /\ pc' = [pc EXCEPT ![r] = "returned"]
    /\ results' = [results EXCEPT ![r] =
                     [ kind |-> "results",
                       img  |-> results[r].img,
                       xyxy |-> to_dict(XYXY_COLUMNS, dets),
                       xywhn |-> to_dict(XYWHN_COLUMNS, dets) ]]
    /\ UNCHANGED << strOverhead, limitsJson, req, stream, trace, image, resp, engineCalls,
                    files, saved, wrote >>

\* results.render(): boxes and labels are drawn onto the image the engine read
render(img) == [img EXCEPT !.ann = @ + 1]

\* main.py:60-64
process_render(r) ==
    /\ pc[r] = "returned"
    /\ image[r].save_file
    /\ files' = [files EXCEPT ![image[r].name] = render(results[r].img)]
    /\ wrote' = [wrote EXCEPT ![r] = TRUE]
    /\ resp' = [resp EXCEPT ![r] = [status |-> 302, body |-> << >>]]
    /\ pc' = [pc EXCEPT ![r] = "done"]
    /\ UNCHANGED << strOverhead, limitsJson, req, stream, trace, image, results, engineCalls, saved >>

\* main.py:66-69: the table that is read
selected_table(output_normalisation) ==
    IF output_normalisation THEN "xywhn" ELSE "xyxy"

\* main.py:65-76
process_table(r) ==
    /\ pc[r] = "returned"
    /\ ~image[r].save_file
    /\ LET which == selected_table(image[r].output_normalisation)
           data  == results[r][which]
       IN  /\ trace' = [trace EXCEPT ![r] = Append(@, which)]
           /\ resp' = [resp EXCEPT ![r] = [status |-> 200, body |-> normalise_table(data)]]
    /\ pc' = [pc EXCEPT ![r] = "done"]
    /\ UNCHANGED << strOverhead, limitsJson, req, stream, image, results, engineCalls,
                    files, saved, wrote >>

----------------------------------------------------------------------------
(* Requests *)

Str(chars) == [str |-> TRUE, chars |-> chars]
\* a JSON value that is no string (a number, say)
NotStr == [str |-> FALSE, chars |-> << >>]

Absent       == [present |-> FALSE, str |-> TRUE, chars |-> << >>]
Given(chars) == [present |-> TRUE, str |-> TRUE, chars |-> chars]
GivenNotStr  == [present |-> TRUE, str |-> FALSE, chars |-> << >>]

a_exe  == <<"a", ".", "e", "x", "e">>
a_jpg  == <<"a", ".", "j", "p", "g">>
a_png  == <<"a", ".", "p", "n", "g">>
a_gif  == <<"a", ".", "g", "i", "f">>
a_bmp  == <<"a", ".", "b", "m", "p">>
a_JPG  == <<"a", ".", "J", "P", "G">>
a_jpeg == <<"a", ".", "j", "p", "e", "g">>

\* values of the "name" field
InlineNames ==
    { Str(a_exe), Str(a_jpg), Str(a_png), Str(a_gif), Str(a_JPG), Str(a_jpeg),
      Str(<<"a">>), Str(<<".", "p", "n", "g">>), Str(<< >>), NotStr }

\* values of the "normalisation" field
Normalisations ==
    { Absent, Given(<<"o", "n">>), Given(<<"O", "N">>), Given(<<"O", "n">>),
      Given(<<"o", "N">>), Given(<<"o", "f", "f">>), Given(<<"o">>),
      Given(<<"o", "n", "n">>), Given(<< >>), GivenNotStr }

\* lengths of the "body" string around the limits of the size guard, for
\* either interpreter, and in between
BodyLens ==
    { 0, 100, 462, 463, 470, 471, 511, 512, 513, 600,
      MAX_PAYLOAD - 49, MAX_PAYLOAD - 48, MAX_PAYLOAD - 41, MAX_PAYLOAD - 40,
      MAX_PAYLOAD - 1, MAX_PAYLOAD, MAX_PAYLOAD + 1 }

StrBodies ==
    { b \in [ str : {TRUE}, len : BodyLens, junk : {0, 3} \cup BodyLens, pad : {0, 1, 2},
              sig : Signatures, objsize : {0} ] :
        /\ b.junk \in {0, 3, b.len}
        /\ b.junk + b.pad <= b.len }

\* "body" values that are no string: null (16 bytes), a number (28 bytes), a
\* list of 100 elements (856 bytes)
OtherBodies ==
    [ str : {FALSE}, len : {0}, junk : {0}, pad : {0}, sig : {"none"},
      objsize : {16, 28, 856} ]

\* a well-formed body: 600 base64 characters of an image with signature sig
GoodBody(sig) ==
    [str |-> TRUE, len |-> 600, junk |-> 0, pad |-> 0, sig |-> sig, objsize |-> 0]

Inline(is_json, payload, hasBody, hasName, body, name, normalisation, opens) ==
    [ kind |-> "inline", is_json |-> is_json, payload |-> payload,
      hasBody |-> hasBody, hasName |-> hasName, body |-> body, name |-> name,
      normalisation |-> normalisation, opens |-> opens ]

\* requests whose payload is a JSON object with both fields
FullInline(bodies, names, norms, opens) ==
    { Inline(TRUE, "object", TRUE, TRUE, b, n, m, o) :
        b \in bodies, n \in names, m \in norms, o \in opens }

\* requests that are no JSON, or JSON that is no object, or an object that
\* lacks a field
PartialInline ==
    { i \in { Inline(j, p, hb, hn, b, Str(a_png), m, TRUE) :
                j \in BOOLEAN, p \in {"object", "array", "malformed"},
                hb \in BOOLEAN, hn \in BOOLEAN,
                b \in {GoodBody("png"), [GoodBody("png") EXCEPT !.len = 100]},
                m \in {Absent, Given(<<"o", "n">>)} } :
        ~(i.is_json /\ i.payload = "object" /\ i.hasBody /\ i.hasName) }

InlineInputs ==
    FullInline(StrBodies \cup OtherBodies, InlineNames, {Absent}, {TRUE})
    \cup FullInline({GoodBody(g) : g \in Signatures}, InlineNames, Normalisations, BOOLEAN)
    \cup PartialInline

\* raw names of uploaded files
UploadNames ==
    { a_jpg, a_png, a_gif, a_bmp, a_exe, a_JPG, a_jpeg, <<"a">>, << >>,
      <<".", "p", "n", "g">>, <<".", ".", "/", "a", ".", "j", "p", "g">>,
      <<"a", ".", "j", "p", "g", ".">>, <<"a", " ", "b", ".", "g", "i", "f">>,
      <<"a", "!", ".", "p", "n", "g">>, <<"a", ".", "g", "i", "f", "/">>,
      <<".", ".">> }

\* sizes of uploaded files around the 512 header bytes and the signatures
\* (all far below MAX_CONTENT_LENGTH)
UploadLens == {0, 1, 5, 9, 10, 511, 512, 513, 1024, 2000}

Upload(hasFile, filename, sig, len, id) ==
    [ kind |-> "upload", hasFile |-> hasFile, filename |-> filename,
      data |-> [sig |-> sig, len |-> len, id |-> id] ]

\* the uploads request r can make; the bytes it uploads are its own (id r)
UploadInputs(r) ==
    { Upload(TRUE, f, g, n, r) : f \in UploadNames, g \in Signatures, n \in UploadLens }
    \cup { Upload(FALSE, << >>, "none", 0, r) }

\* names under which a file can be stored
StoredNames == { secure_filename(f) : f \in UploadNames } \ { << >> }

----------------------------------------------------------------------------
(* Specifications *)

Init ==
    /\ strOverhead \in PY_STR_OVERHEADS
    /\ limitsJson \in BOOLEAN
    /\ pc = [r \in Reqs |-> "idle"]
    /\ req = [r \in Reqs |-> NoReq]
    /\ stream = [r \in Reqs |-> NoStream]
    /\ trace = [r \in Reqs |-> << >>]
    /\ image = [r \in Reqs |-> NoImage]
    /\ results = [r \in Reqs |-> NoResult]
    /\ resp = [r \in Reqs |-> NoResp]
    /\ engineCalls = [r \in Reqs |-> 0]
    /\ files = [n \in StoredNames |-> NoFile]
    /\ saved = << >>
    /\ wrote = [r \in Reqs |-> FALSE]

\* One request to /api/inspect_image, any payload
NextInline ==
    \/ \E inp \in InlineInputs : inspect_image(1, inp)
    \/ enter_model(1)
    \/ \E dets \in Detections : leave_model(1, dets)
    \/ process_table(1)

SpecInline == Init /\ [][NextInline]_vars

\* One upload to /, any file
NextUpload ==
    \/ \E inp \in UploadInputs(1) : upload_files(1, inp)
    \/ save_upload(1)
    \/ enter_model(1)
    \/ leave_model(1, << >>)
    \/ process_render(1)

SpecUpload == Init /\ [][NextUpload]_vars

\* Requests of the concurrent specification: uploads of different pictures
\* under one name, an upload that is rejected, and inline requests that pass,
\* fail a check, or carry a normalisation that is no string
ConcUploads(r) ==
    { Upload(TRUE, a_jpg, "jpeg", 2000, r), Upload(TRUE, a_jpg, "png", 2000, r),
      Upload(TRUE, a_exe, "jpeg", 2000, r) }

ConcInline ==
    FullInline({GoodBody("png")}, {Str(a_png), Str(a_exe)},
               {Absent, Given(<<"O", "n">>), GivenNotStr}, {TRUE})
    \cup FullInline({[GoodBody("png") EXCEPT !.len = 100]}, {Str(a_png)}, {Absent}, {TRUE})
    \cup { Inline(FALSE, "object", TRUE, TRUE, GoodBody("png"), Str(a_png), Absent, TRUE) }

ConcDetections == { << >>, <<"cat">> }

\* The threaded server: every thread serves one request, threads interleave
\* at the accesses to the upload directory and to the engine
Next ==
    \E r \in Reqs :
        \/ \E inp \in ConcUploads(r) : upload_files(r, inp)
        \/ \E inp \in ConcInline : inspect_image(r, inp)
        \/ save_upload(r)
        \/ enter_model(r)
        \/ \E dets \in ConcDetections : leave_model(r, dets)
        \/ process_render(r)
        \/ process_table(r)

Spec == Init /\ [][Next]_vars

----------------------------------------------------------------------------
(* Vocabulary of the properties *)

IsInline(r) == req[r].kind = "inline"
IsUpload(r) == req[r].kind = "upload"
Done(r)     == pc[r] = "done"

InTrace(r, op) == \E i \in 1..Len(trace[r]) : trace[r][i] = op

\* the request is JSON, its payload an object with "body" and "name"
HasBothFields(r) ==
    /\ IsInline(r)
    /\ req[r].is_json /\ req[r].payload = "object"
    /\ req[r].hasBody /\ req[r].hasName

\* the body is inside the size guard as the code applies it: the size of the
\* Python object
ObjectSizeInGuard(r) ==
    LET b  == req[r].body
        sz == IF b.str THEN strOverhead + b.len ELSE b.objsize
    IN  sz >= 512 /\ sz <= MAX_PAYLOAD

\* the body is a string that base64 decodes
Decodable(r) ==
    LET b == req[r].body
        d == b.len - b.junk - b.pad
    IN  /\ b.str
        /\ \/ d % 4 = 0
           \/ d % 4 = 2 /\ b.pad >= 2
           \/ d % 4 = 3 /\ b.pad >= 1

\* the request is longer than Flask lets the handler read
TooLarge(r) == limitsJson /\ request_content_length(req[r]) > 4096 * 4096

\* the name is a string that has an extension, which is not allowed
NameOutsideAllowlist(r) ==
    /\ req[r].name.str
    /\ splitext_ext(req[r].name.chars) \notin IMAGE_EXTENSIONS \cup { << >> }

----------------------------------------------------------------------------
(* C1 *)

\* C1 as stated: an inline request with both fields whose name has an
\* extension outside the allowlist is answered 415 whatever the body is
C1_AlwaysUnsupportedMediaType ==
    \A r \in Reqs :
        (HasBothFields(r) /\ NameOutsideAllowlist(r) /\ Done(r)) => resp[r].status = 415

\* C1 amended: an inline request with both fields whose name has an extension
\* outside the allowlist is answered 415 when its body passes the size guard
\* and base64 decodes, and 422 when the body fails either of the two (413
\* when Flask refuses to read a request longer than MAX_CONTENT_LENGTH)
C1_UnsupportedAfterDecoding ==
    \A r \in Reqs :
        (HasBothFields(r) /\ NameOutsideAllowlist(r) /\ Done(r)) =>
            resp[r].status =
                IF TooLarge(r) THEN 413
                ELSE IF ObjectSizeInGuard(r) /\ Decodable(r) THEN 415
                ELSE 422

C1_Witness ==
    \E r \in Reqs :
        /\ HasBothFields(r) /\ Done(r)
        /\ req[r].name = Str(a_exe)
        /\ ObjectSizeInGuard(r) /\ Decodable(r)
        /\ ~TooLarge(r)
        /\ req[r].body.sig = "png"
        /\ resp[r].status = 415

----------------------------------------------------------------------------
(* C2 *)

\* C2 as stated: the size guard bounds the encoded length of the body by
\* [512, MAX_PAYLOAD], both inclusive: a string body goes on to base64
\* decoding exactly when its length is in that range, and is answered 422
\* when it is not
C2_GuardOnEncodedLength ==
    \A r \in Reqs :
        (HasBothFields(r) /\ req[r].body.str /\ Done(r)) =>
            LET n == req[r].body.len
            IN  IF n >= 512 /\ n <= MAX_PAYLOAD
                THEN InTrace(r, "b64decode")
                ELSE ~InTrace(r, "b64decode") /\ resp[r].status = 422

----------------------------------------------------------------------------
(* C4 *)

\* C4 as stated: a request that is not JSON, or a request of well-formed
\* JSON without "body" or without "name", is answered 415 and nothing is
\* done with it: no size check, no decoding, no sniffing, no engine call
C4_MissingFieldsUnsupported ==
    \A r \in Reqs :
        (IsInline(r) /\ ~HasBothFields(r) /\ req[r].payload # "malformed" /\ Done(r)) =>
            /\ resp[r].status = 415
            /\ trace[r] = << >>
            /\ engineCalls[r] = 0

----------------------------------------------------------------------------
(* C3 *)

\* the extension that the first 512 bytes of the content d give
SniffedExt(d) ==
    LET n == IF d.len < 512 THEN d.len ELSE 512
    IN  CASE d.sig = "jpeg" /\ n >= 10 -> <<".", "j", "p", "g">>
          [] d.sig = "png"  /\ n >= 8  -> <<".", "p", "n", "g">>
          [] d.sig = "gif"  /\ n >= 6  -> <<".", "g", "i", "f">>
          [] d.sig = "bmp"  /\ n >= 2  -> <<".", "b", "m", "p">>
          [] OTHER -> None

StoredName(r) == secure_filename(req[r].filename)
ClaimedExt(r) == splitext_ext(StoredName(r))

\* an upload of a file whose sanitized name is not empty
NamedUpload(r) == IsUpload(r) /\ req[r].hasFile /\ StoredName(r) # << >>

ExtAllowed(r)  == ClaimedExt(r) \in { <<".", "j", "p", "g">>, <<".", "p", "n", "g">>,
                                     <<".", "g", "i", "f">> }
SniffAgrees(r) == SniffedExt(req[r].data) = ClaimedExt(r)

Accepted(r) ==
    /\ resp[r].status = 302
    /\ engineCalls[r] = 1
    /\ wrote[r]
    /\ \E i \in 1..Len(saved) : saved[i] = r

Rejected422(r) ==
    /\ resp[r].status = 422
    /\ engineCalls[r] = 0
    /\ ~wrote[r]
    /\ \A i \in 1..Len(saved) : saved[i] # r

\* C3: an upload with a non-empty sanitized name is accepted (stored and
\* passed to the engine) exactly when its extension is .jpg, .png or .gif and
\* the extension sniffed from its first 512 bytes is the same string; every
\* other such upload ends with 422, so that either condition alone decides
C3_AcceptIffAllowedAndSniffed ==
    \A r \in Reqs :
        NamedUpload(r) =>
            /\ Done(r) =>
                 IF ExtAllowed(r) /\ SniffAgrees(r) THEN Accepted(r) ELSE Rejected422(r)
            /\ ~Done(r) => ExtAllowed(r) /\ SniffAgrees(r)

\* an accepted a.jpg upload of JPEG content
C3_Witness ==
    \E r \in Reqs :
        /\ NamedUpload(r) /\ Done(r) /\ Accepted(r)
        /\ ClaimedExt(r) = <<".", "j", "p", "g">>
        /\ req[r].data.sig = "jpeg"

----------------------------------------------------------------------------
(* C8 *)

\* C8: validate_image leaves the stream at position 0, whatever the length
\* and format of the upload, and the file that upload_files stores for an
\* accepted upload holds all bytes of the upload from the first one
C8_StreamRewound ==
    \A r \in Reqs :
        NamedUpload(r) =>
            /\ (pc[r] = "save" \/ (Done(r) /\ resp[r].status = 422)) => stream[r].pos = 0
            /\ pc[r] \in {"call_model", "in_model", "returned", "done"} /\ wrote[r] =>
                 LET f == files[StoredName(r)]
                 IN  f.id = r /\ f.off = 0 /\ f.len = req[r].data.len

C8_Witness ==
    \E r \in Reqs :
        /\ NamedUpload(r) /\ pc[r] = "call_model"
        /\ req[r].data.len = 2000
        /\ files[StoredName(r)] =
             [id |-> r, sig |-> req[r].data.sig, off |-> 0, len |-> 2000, ann |-> 0]

----------------------------------------------------------------------------
(* C5 *)

\* the table process_image normalises for request r
TableOf(r) == IF image[r].output_normalisation THEN results[r].xywhn ELSE results[r].xyxy
ColumnsOf(r) == IF image[r].output_normalisation THEN XYWHN_COLUMNS ELSE XYXY_COLUMNS
RowsOf(r) == Cardinality(DOMAIN TableOf(r)["confidence"])

\* C5: the table branch of process_image answers a table of n rows with n
\* records, the record at position i having exactly the table's columns as
\* keys and for each column the value of row i; no rows give the empty list
C5_RecordsMirrorTable ==
    \A r \in Reqs :
        (IsInline(r) /\ Done(r) /\ resp[r].status = 200) =>
            /\ Len(resp[r].body) = RowsOf(r)
            /\ \A i \in 0..(RowsOf(r) - 1) :
                 /\ DOMAIN resp[r].body[i + 1] = ColumnsOf(r)
                 /\ \A c \in ColumnsOf(r) : resp[r].body[i + 1][c] = TableOf(r)[c][i]

C5_Witness ==
    \E r \in Reqs :
        /\ IsInline(r) /\ Done(r) /\ resp[r].status = 200
        /\ Len(resp[r].body) = 2
        /\ resp[r].body[1]["name"] = <<"name", "dog">>
        /\ resp[r].body[2]["name"] = <<"name", "cat">>

----------------------------------------------------------------------------
(* C6 *)

\* the request passed every check of the handler and its image was opened
PassedChecks(r) ==
    /\ HasBothFields(r)
    /\ InTrace(r, "Image.open")
    /\ req[r].opens

NormalisationOn(r) ==
    /\ req[r].normalisation.present
    /\ req[r].normalisation.str
    /\ req[r].normalisation.chars \in
         { <<"o", "n">>, <<"O", "N">>, <<"O", "n">>, <<"o", "N">> }

\* C6 as stated: a request that passed all checks succeeds, with the xywhn
\* table when its normalisation field is "on" in any case, and with the xyxy
\* table when the field is absent or has any other value
C6_ModeByNormalisation ==
    \A r \in Reqs :
        (PassedChecks(r) /\ Done(r)) =>
            /\ resp[r].status = 200
            /\ IF NormalisationOn(r) THEN InTrace(r, "xywhn") ELSE InTrace(r, "xyxy")

----------------------------------------------------------------------------
(* C7 *)

\* the request passes every validation step of its handler (and the decoded
\* image opens)
PassesValidation(r) ==
    \/ NamedUpload(r) /\ ExtAllowed(r) /\ SniffAgrees(r)
    \/ /\ HasBothFields(r) /\ ~TooLarge(r) /\ ObjectSizeInGuard(r) /\ Decodable(r)
       /\ req[r].name.str
       /\ splitext_ext(req[r].name.chars) \in IMAGE_EXTENSIONS
       /\ SniffedExt(standard_b64decode(req[r].body)) = splitext_ext(req[r].name.chars)
       /\ req[r].opens

\* C7 as stated: a finished request that passed every validation step called
\* the engine exactly once; a request answered 415 or 422 never called it and
\* wrote nothing to the upload directory
C7_EngineOncePerValidRequest ==
    \A r \in Reqs :
        Done(r) =>
            /\ PassesValidation(r) => engineCalls[r] = 1
            /\ resp[r].status \in {415, 422} => engineCalls[r] = 0 /\ ~wrote[r]

----------------------------------------------------------------------------
(* C9 *)

\* two uploads that were accepted under the same name have finished
BothFinished(r, q) ==
    /\ r # q
    /\ NamedUpload(r) /\ NamedUpload(q)
    /\ StoredName(r) = StoredName(q)
    /\ Done(r) /\ Done(q)
    /\ resp[r].status = 302 /\ resp[q].status = 302

\* C9 as stated: when all uploads under one name have finished, the file is
\* the picture of the request that saved last, annotated exactly once
C9_LastSaverWins ==
    \A r, q \in Reqs :
        (BothFinished(r, q) /\ \A t \in Reqs : Done(t)) =>
            LET f == files[StoredName(r)]
            IN  f.id = saved[Len(saved)] /\ f.ann = 1

----------------------------------------------------------------------------
(* C10 *)

\* C10: nothing serializes the engine: a request that has reached the call
\* of MODEL can enter it at once, whoever is inside, so that two requests
\* can be inside together (C10_Witness)
C10_EngineNotSerialized ==
    \A r \in Reqs : pc[r] = "call_model" => ENABLED enter_model(r)

C10_Witness ==
    \E r, q \in Reqs :
        /\ r # q
        /\ pc[r] = "in_model" /\ pc[q] = "in_model"
        /\ IsUpload(r) /\ IsInline(q)

====
